---- MODULE Spec2Model ----
(***************************************************************************)
(* A model of pkg/monitor/agent.go of everoute: the AgentMonitor, which    *)
(* builds an AgentInfo snapshot from the mirrored OVSDB cache and the      *)
(* learned-IP cache, merges it with the AgentInfo stored in the apiserver  *)
(* and creates or updates that object from a single queue worker.          *)
(***************************************************************************)
EXTENDS Integers, Sequences, FiniteSets, TLC

(***************************************************************************)
(* Values.                                                                 *)
(***************************************************************************)

\* Go's nil pointer / absent object.
Nil == [kind |-> "nil"]

\* ovsdb column values, tagged with their Go dynamic type.  A column that is
\* empty arrives as an ovsdb.OvsSet, not as a zero value.
StrField(s) == [t |-> "string", s |-> s]
NoStrField == [t |-> "OvsSet", s |-> ""]
NumField(n) == [t |-> "float64", n |-> n]
NoNumField == [t |-> "OvsSet", n |-> 0]
MapField == [t |-> "OvsMap"]
NoField == [t |-> "nil"]
UUIDField(u) == [t |-> "UUID", set |-> <<u>>]
SetField(us) == [t |-> "OvsSet", set |-> us]

\* A map value held by an OVSInterface.IPMap field of a snapshot under
\* construction.  Go maps are references: the field is nil, or it is the very
\* map object stored in monitor.ipCache under a key, or a map of its own.
NilMap == [ref |-> "nil", key |-> "", map |-> <<>>]
CacheRef(k) == [ref |-> "cache", key |-> k, map |-> <<>>]
OwnMap(m) == [ref |-> "own", key |-> "", map |-> m]

\* The content of a map reference, read through the heap (the ipCache).
MapOf(r, cache) ==
    IF r.ref = "cache" THEN cache[r.key] ELSE r.map

\* l, completed by the entries of r whose key l lacks.
MapMerge(l, r) ==
    [k \in (DOMAIN l) \cup (DOMAIN r) |-> IF k \in DOMAIN l THEN l[k] ELSE r[k]]

RECURSIVE ConcatAll(_)
ConcatAll(ss) ==
    IF Len(ss) = 0 THEN <<>> ELSE Head(ss) \o ConcatAll(Tail(ss))

\* int32(float64): the columns carry whole numbers far inside the int32 range
\* (an ofport has 16 bits), on which the conversion keeps the value.
Int32(n) == n

\* fmt.Sprintf("%s-%d", bridgeName, ofport)
PortKey(bridgeName, ofport) == bridgeName \o "-" \o ToString(ofport)

\* net.IP.IsGlobalUnicast on a 4-byte address: not the broadcast address, not
\* unspecified, not loopback, not multicast, not link-local unicast.
IsGlobalUnicast(ip) ==
    /\ ip # <<255, 255, 255, 255>>
    /\ ip # <<0, 0, 0, 0>>
    /\ ip[1] # 127
    /\ ~(ip[1] >= 224 /\ ip[1] <= 239)
    /\ ~(ip[1] = 169 /\ ip[2] = 254)

(***************************************************************************)
(* The Agent State Builder: getAgentInfo and the fetch*Locked helpers.     *)
(***************************************************************************)

\* A test that takes every string, the empty one as well, for an error.
ifHasErrorAnyString(ovsIf) == ovsIf.t = "string"

ifHasError(ovsIf) ==
    IF ovsIf.t # "string" THEN FALSE
    ELSE IF ovsIf.s = "" THEN FALSE
    ELSE TRUE

\* A single ovsdb.UUID, or the members of an ovsdb.OvsSet, in order.
listUUID(uuidList) ==
    IF uuidList.t = "UUID" THEN uuidList.set
    ELSE IF uuidList.t = "OvsSet" THEN uuidList.set
    ELSE <<>>

NoIface == [Name |-> "", Ofport |-> 0, IPMap |-> NilMap]

\* A test that takes any number, a negative one as well, for a valid ofport.
OfportValidAnyNumber(f) == f.t = "float64"

\* ok /\ ofport >= 0 guards both the Ofport and the IPMap assignment.
OfportValid(f) == f.t = "float64" /\ f.n >= 0

\* An interface fetch that never attaches the cached addresses.
fetchInterfaceLockedNoIPMap(ovsdbCache, uuid, bridgeName, cache) ==
    IF uuid \notin DOMAIN ovsdbCache.Interface \/ ifHasError(ovsdbCache.Interface[uuid].error)
    THEN [skip |-> TRUE, iface |-> NoIface]
    ELSE [skip |-> FALSE,
          iface |-> [Name |-> ovsdbCache.Interface[uuid].name,
                     Ofport |-> IF OfportValid(ovsdbCache.Interface[uuid].ofport)
                                THEN Int32(ovsdbCache.Interface[uuid].ofport.n) ELSE 0,
                     IPMap |-> NilMap]]

\* Returns [skip |-> TRUE] for a nil result, else the interface.  IPMap is
\* monitor.ipCache[key]: nil when the key is absent, else the cached map itself.
fetchInterfaceLocked(ovsdbCache, uuid, bridgeName, cache) ==
    IF uuid \notin DOMAIN ovsdbCache.Interface
    THEN [skip |-> TRUE, iface |-> NoIface]
    ELSE LET ovsIface == ovsdbCache.Interface[uuid] IN
         IF ifHasError(ovsIface.error)
         THEN [skip |-> TRUE, iface |-> NoIface]
         ELSE IF OfportValid(ovsIface.ofport)
              THEN LET ofport == Int32(ovsIface.ofport.n)
                       key == PortKey(bridgeName, ofport)
                   IN [skip |-> FALSE,
                       iface |-> [Name |-> ovsIface.name,
                                  Ofport |-> ofport,
                                  IPMap |-> IF key \in DOMAIN cache
                                            THEN CacheRef(key) ELSE NilMap]]
              ELSE [skip |-> FALSE,
                    iface |-> [Name |-> ovsIface.name, Ofport |-> 0, IPMap |-> NilMap]]

NoPort == [Name |-> "", Interfaces |-> <<>>]

\* The loop over the interfaces of a port: a nil interface is passed over, any
\* other is appended.
RECURSIVE fetchInterfaces(_, _, _, _)
fetchInterfaces(ovsdbCache, uuids, bridgeName, cache) ==
    IF Len(uuids) = 0 THEN <<>>
    ELSE LET r == fetchInterfaceLocked(ovsdbCache, Head(uuids), bridgeName, cache)
         IN (IF r.skip THEN <<>> ELSE <<r.iface>>)
                \o fetchInterfaces(ovsdbCache, Tail(uuids), bridgeName, cache)

\* A port fetch that fails when one of the port's interfaces is not in the
\* Interface table.
fetchPortLockedStrict(ovsdbCache, uuid, bridgeName, cache) ==
    IF uuid \notin DOMAIN ovsdbCache.Port
    THEN [err |-> TRUE, port |-> NoPort]
    ELSE IF \E n \in 1..Len(listUUID(ovsdbCache.Port[uuid].interfaces)) :
               listUUID(ovsdbCache.Port[uuid].interfaces)[n] \notin DOMAIN ovsdbCache.Interface
    THEN [err |-> TRUE, port |-> NoPort]
    ELSE [err |-> FALSE,
          port |-> [Name |-> ovsdbCache.Port[uuid].name,
                    Interfaces |-> fetchInterfaces(ovsdbCache,
                                        listUUID(ovsdbCache.Port[uuid].interfaces),
                                        bridgeName, cache)]]

fetchPortLocked(ovsdbCache, uuid, bridgeName, cache) ==
    IF uuid \notin DOMAIN ovsdbCache.Port
    THEN [err |-> TRUE, port |-> NoPort]
    ELSE [err |-> FALSE,
          port |-> [Name |-> ovsdbCache.Port[uuid].name,
                    Interfaces |-> fetchInterfaces(ovsdbCache,
                                        listUUID(ovsdbCache.Port[uuid].interfaces),
                                        bridgeName, cache)]]

\* The loop over the ports of a bridge: the first port that fails ends it.
RECURSIVE fetchPorts(_, _, _, _)
fetchPorts(ovsdbCache, uuids, bridgeName, cache) ==
    IF Len(uuids) = 0 THEN [err |-> FALSE, ports |-> <<>>]
    ELSE LET r == fetchPortLocked(ovsdbCache, Head(uuids), bridgeName, cache)
             rest == fetchPorts(ovsdbCache, Tail(uuids), bridgeName, cache)
         IN IF r.err \/ rest.err THEN [err |-> TRUE, ports |-> <<>>]
            ELSE [err |-> FALSE, ports |-> <<r.port>> \o rest.ports]

NoBridge == [Name |-> "", Ports |-> <<>>]

\* A bridge fetch that leaves out the ports it cannot find.
fetchBridgeLockedSkipMissing(ovsdbCache, uuid, cache) ==
    [err |-> FALSE,
     bridge |-> [Name |-> ovsdbCache.Bridge[uuid].name,
                 Ports |-> fetchPorts(ovsdbCache,
                              SelectSeq(listUUID(ovsdbCache.Bridge[uuid].ports),
                                        LAMBDA u : u \in DOMAIN ovsdbCache.Port),
                              ovsdbCache.Bridge[uuid].name, cache).ports]]

fetchBridgeLocked(ovsdbCache, uuid, cache) ==
    IF uuid \notin DOMAIN ovsdbCache.Bridge
    THEN [err |-> TRUE, bridge |-> NoBridge]
    ELSE LET got == fetchPorts(ovsdbCache, listUUID(ovsdbCache.Bridge[uuid].ports),
                               ovsdbCache.Bridge[uuid].name, cache)
         IN IF got.err THEN [err |-> TRUE, bridge |-> NoBridge]
            ELSE [err |-> FALSE,
                  bridge |-> [Name |-> ovsdbCache.Bridge[uuid].name, Ports |-> got.ports]]

NoInfo == [Bridges |-> <<>>]

\* The loop over the Bridge table: the first bridge that fails ends it.
RECURSIVE fetchBridges(_, _, _)
fetchBridges(ovsdbCache, uuids, cache) ==
    IF Len(uuids) = 0 THEN [err |-> FALSE, bridges |-> <<>>]
    ELSE LET r == fetchBridgeLocked(ovsdbCache, Head(uuids), cache)
             rest == fetchBridges(ovsdbCache, Tail(uuids), cache)
         IN IF r.err \/ rest.err THEN [err |-> TRUE, bridges |-> <<>>]
            ELSE [err |-> FALSE, bridges |-> <<r.bridge>> \o rest.bridges]

\* order lists the uuids of the Bridge table in the order the range over the
\* Go map happens to visit them.
getAgentInfo(ovsdbCache, cache, order) ==
    LET got == fetchBridges(ovsdbCache, order, cache)
    IN IF got.err THEN [err |-> TRUE, info |-> NoInfo]
       ELSE [err |-> FALSE, info |-> [Bridges |-> got.bridges]]

\* Fields["external_ids"].(ovsdb.OvsMap) is a type assertion without the ok
\* form: it panics when the column is absent or holds another type.  It is
\* reached for a row that is in the table and has no error text.
fetchInterfacePanics(ovsdbCache, uuid) ==
    /\ uuid \in DOMAIN ovsdbCache.Interface
    /\ ~ifHasError(ovsdbCache.Interface[uuid].error)
    /\ ovsdbCache.Interface[uuid].external_ids.t # "OvsMap"

\* The loop over a port's interfaces reaches every one of them.
fetchPortPanics(ovsdbCache, uuid) ==
    /\ uuid \in DOMAIN ovsdbCache.Port
    /\ \E n \in 1..Len(listUUID(ovsdbCache.Port[uuid].interfaces)) :
          fetchInterfacePanics(ovsdbCache, listUUID(ovsdbCache.Port[uuid].interfaces)[n])

\* The loop over a bridge's ports returns at the first port that is not in
\* the table, so a port after it is not reached.
RECURSIVE fetchPortsPanic(_, _)
fetchPortsPanic(ovsdbCache, uuids) ==
    IF Len(uuids) = 0 THEN FALSE
    ELSE IF Head(uuids) \notin DOMAIN ovsdbCache.Port THEN FALSE
    ELSE fetchPortPanics(ovsdbCache, Head(uuids)) \/ fetchPortsPanic(ovsdbCache, Tail(uuids))

\* The range over the Bridge table returns at the first bridge that fails.
RECURSIVE getAgentInfoPanics(_, _)
getAgentInfoPanics(ovsdbCache, order) ==
    IF Len(order) = 0 THEN FALSE
    ELSE LET ports == listUUID(ovsdbCache.Bridge[Head(order)].ports) IN
         \/ fetchPortsPanic(ovsdbCache, ports)
         \/ /\ \A n \in 1..Len(ports) : ports[n] \in DOMAIN ovsdbCache.Port
            /\ getAgentInfoPanics(ovsdbCache, Tail(order))

(***************************************************************************)
(* The merge step: getCpIntf and mergeAgentInfo.                           *)
(***************************************************************************)

\* The positions <<bridge, port, interface>> of an AgentInfo, in range order.
IfacePaths(info) ==
    ConcatAll([i \in 1..Len(info.Bridges) |->
        ConcatAll([j \in 1..Len(info.Bridges[i].Ports) |->
            [k \in 1..Len(info.Bridges[i].Ports[j].Interfaces) |-> <<i, j, k>>]])])

IfaceAt(info, p) == info.Bridges[p[1]].Ports[p[2]].Interfaces[p[3]]

\* The first interface of cpAgentInfo, in range order, in a bridge of that name
\* and with newInterface's Ofport; Nil when there is none.
getCpIntf(bridgeName, newInterface, cpAgentInfo) ==
    LET hits == SelectSeq(IfacePaths(cpAgentInfo), LAMBDA p :
                    /\ cpAgentInfo.Bridges[p[1]].Name = bridgeName
                    /\ IfaceAt(cpAgentInfo, p).Ofport = newInterface.Ofport)
    IN IF Len(hits) = 0 THEN Nil ELSE IfaceAt(cpAgentInfo, hits[1])

\* A merge in which the remote value overwrites the local one.
MergeIPMapRemoteWins(localMap, cpMap) == MapMerge(cpMap, localMap)

\* A merge that copies nothing from the remote map.
MergeIPMapKeepLocal(localMap, cpMap) == localMap

\* The inner loop over matchIntf.IPMap: a key of the remote map is copied only
\* when the local map lacks it, so the local value wins on a collision.
MergeIPMap(localMap, cpMap) == MapMerge(localMap, cpMap)

SetIPMap(info, p, r) ==
    [info EXCEPT !.Bridges[p[1]].Ports[p[2]].Interfaces[p[3]].IPMap = r]

\* A merge that takes the whole matching interface of the stored object in
\* place of the local one.
MergeIfaceRemoteRecord(st, p, cpAgentInfo) ==
    LET intf == IfaceAt(st.info, p)
        matchIntf == getCpIntf(st.info.Bridges[p[1]].Name, intf, cpAgentInfo)
    IN IF matchIntf = Nil THEN st
       ELSE [st EXCEPT !.info.Bridges[p[1]].Ports[p[2]].Interfaces[p[3]] =
                [Name |-> matchIntf.Name, Ofport |-> matchIntf.Ofport,
                 IPMap |-> OwnMap(matchIntf.IPMap)]]

\* One iteration of the loop over the local interfaces, on the snapshot and the
\* heap it points into.  A nil local map is replaced by a new map; a map that
\* is the ipCache's own map object is written in place.
MergeIface(st, p, cpAgentInfo) ==
    LET intf == IfaceAt(st.info, p)
        matchIntf == getCpIntf(st.info.Bridges[p[1]].Name, intf, cpAgentInfo)
    IN IF matchIntf = Nil THEN st
       ELSE IF DOMAIN matchIntf.IPMap = {} THEN st
       ELSE IF intf.IPMap.ref = "nil"
            THEN [st EXCEPT !.info = SetIPMap(st.info, p,
                                        OwnMap(MergeIPMap(<<>>, matchIntf.IPMap)))]
       ELSE IF intf.IPMap.ref = "cache"
            THEN [st EXCEPT !.cache[intf.IPMap.key] =
                                        MergeIPMap(@, matchIntf.IPMap)]
       ELSE [st EXCEPT !.info = SetIPMap(st.info, p,
                                        OwnMap(MergeIPMap(intf.IPMap.map, matchIntf.IPMap)))]

RECURSIVE MergeFrom(_, _, _)
MergeFrom(st, paths, cpAgentInfo) ==
    IF Len(paths) = 0 THEN st
    ELSE MergeFrom(MergeIface(st, Head(paths), cpAgentInfo), Tail(paths), cpAgentInfo)

\* Returns the merged snapshot and the ipCache as the merge leaves it.
mergeAgentInfo(localAgentInfo, cpAgentInfo, cache) ==
    MergeFrom([info |-> localAgentInfo, cache |-> cache],
              IfacePaths(localAgentInfo), cpAgentInfo)

\* The object a Create or Update request carries: the snapshot with every map
\* reference read at the time of the call.
SerializeIface(f, cache) ==
    [Name |-> f.Name, Ofport |-> f.Ofport, IPMap |-> MapOf(f.IPMap, cache)]

SerializePort(port, cache) ==
    [Name |-> port.Name,
     Interfaces |-> [k \in 1..Len(port.Interfaces) |->
                        SerializeIface(port.Interfaces[k], cache)]]

SerializeBridge(bridge, cache) ==
    [Name |-> bridge.Name,
     Ports |-> [j \in 1..Len(bridge.Ports) |-> SerializePort(bridge.Ports[j], cache)]]

Serialize(info, cache) ==
    [Bridges |-> [i \in 1..Len(info.Bridges) |-> SerializeBridge(info.Bridges[i], cache)]]

(***************************************************************************)
(* Learning: updateOfPortIPAddress and shouldSyncOnLearnIPLocked.          *)
(***************************************************************************)

\* A loop that caches whatever address it is given.
learnBatchUnfiltered(cache, localEndpointInfo, t) ==
    [k \in (DOMAIN cache) \cup (DOMAIN localEndpointInfo) |->
        IF k \in DOMAIN localEndpointInfo THEN (localEndpointInfo[k] :> t) ELSE cache[k]]

\* A loop that adds the address to the port's map and keeps what the map held.
learnBatchMerging(cache, localEndpointInfo, t) ==
    LET hit == {k \in DOMAIN localEndpointInfo : IsGlobalUnicast(localEndpointInfo[k])}
    IN [k \in (DOMAIN cache) \cup hit |->
            IF k \in hit
            THEN MapMerge(localEndpointInfo[k] :> t, IF k \in DOMAIN cache THEN cache[k] ELSE <<>>)
            ELSE cache[k]]

\* The loop over a batch: a non-global address is skipped, any other replaces
\* the port's map by the single entry {ip: now}.
learnBatch(cache, localEndpointInfo, t) ==
    LET hit == {k \in DOMAIN localEndpointInfo : IsGlobalUnicast(localEndpointInfo[k])}
    IN [k \in (DOMAIN cache) \cup hit |->
            IF k \in hit THEN (localEndpointInfo[k] :> t) ELSE cache[k]]

\* A check that asks for a sync on every batch.
shouldSyncOnLearnIPLockedAlways(cache, got) == TRUE

\* A check that looks for a missing address under the matched keys and never
\* compares the counts.
shouldSyncOnLearnIPLockedNoCount(cache, got) ==
    IF got.kind # "found" THEN TRUE
    ELSE \E n \in 1..Len(IfacePaths(got.obj)) :
            LET p == IfacePaths(got.obj)[n]
                k == PortKey(got.obj.Bridges[p[1]].Name, IfaceAt(got.obj, p).Ofport)
            IN k \in DOMAIN cache /\ ~(DOMAIN cache[k] \subseteq DOMAIN IfaceAt(got.obj, p).IPMap)

\* got is the result of k8sClientGet.
shouldSyncOnLearnIPLocked(cache, got) ==
    IF got.kind # "found" THEN TRUE
    ELSE LET agentInfo == got.obj
             keyOf(p) == PortKey(agentInfo.Bridges[p[1]].Name, IfaceAt(agentInfo, p).Ofport)
             inCache == SelectSeq(IfacePaths(agentInfo), LAMBDA p : keyOf(p) \in DOMAIN cache)
         IN \/ \E n \in 1..Len(inCache) :
                  \E ip \in DOMAIN cache[keyOf(inCache[n])] :
                      ip \notin DOMAIN IfaceAt(agentInfo, inCache[n]).IPMap
            \/ Len(inCache) # Cardinality(DOMAIN cache)

(***************************************************************************)
(* The work queue (dirty/processing sets of client-go, one key) as the     *)
(* monitor uses it.                                                        *)
(***************************************************************************)

\* queued counts the items waiting for Get; dirty and processing say whether
\* the agent's key is in the set of that name.
NewQueue == [queued |-> 0, dirty |-> FALSE, processing |-> FALSE,
             shuttingDown |-> FALSE, waiting |-> FALSE]

\* An Add that drops the key while it is being processed.
QAddDropInFlight(q) ==
    IF q.shuttingDown \/ q.dirty \/ q.processing THEN q
    ELSE [q EXCEPT !.dirty = TRUE, !.queued = @ + 1]

QAdd(q) ==
    IF q.shuttingDown \/ q.dirty THEN q
    ELSE IF q.processing THEN [q EXCEPT !.dirty = TRUE]
    ELSE [q EXCEPT !.dirty = TRUE, !.queued = @ + 1]

QGet(q) == [q EXCEPT !.queued = @ - 1, !.dirty = FALSE, !.processing = TRUE]

QDone(q) ==
    IF q.dirty THEN [q EXCEPT !.processing = FALSE, !.queued = @ + 1]
    ELSE [q EXCEPT !.processing = FALSE]

QAddAfter(q) == IF q.shuttingDown THEN q ELSE [q EXCEPT !.waiting = TRUE]

\* A Run that returns without shutting the queue down.
QShutDownSkipped(q) == q

QShutDown(q) == [q EXCEPT !.shuttingDown = TRUE]

(***************************************************************************)
(* Bounds and the inputs the environment draws from.                       *)
(***************************************************************************)

\* Learning batches handled in one run (each takes the next clock value).
MaxTime == 2
\* Events of the environment in one run: a change of the switch, a request the
\* apiserver fails for a reason of its own, a write by another writer, the
\* shutdown signal.
MaxEnvEvents == 1

Addr7 == <<10, 0, 0, 7>>
Addr8 == <<10, 0, 0, 8>>
Addr9 == <<10, 0, 0, 9>>
Loopback == <<127, 0, 0, 1>>
LinkLocal == <<169, 254, 0, 1>>
Multicast == <<224, 0, 0, 1>>

ObservedAddrs == {Addr7, Addr8, Loopback, LinkLocal, Multicast}
LearnKeys == {"br0-1", "br0-2"}

\* The batches the learning channel can deliver: a map from port keys to one
\* address each.
Batches ==
    UNION {[S -> ObservedAddrs] : S \in (SUBSET LearnKeys) \ {{}}}

DefaultIface(u) ==
    [name |-> IF u = "i1" THEN "eth1" ELSE "eth2",
     error |-> NoStrField, ofport |-> NoNumField, external_ids |-> MapField]

DefaultPort == [name |-> "p0", interfaces |-> SetField(<<"i1", "i2">>)]

\* The mirror after the switch was set up: one bridge with one port of two
\* interfaces, the first with ofport 1, the second not yet assigned one.
InitOvsdbCache ==
    [Bridge |-> ("b0" :> [name |-> "br0", ports |-> UUIDField("p0")]),
     Port |-> ("p0" :> DefaultPort),
     Interface |-> ("i1" :> [DefaultIface("i1") EXCEPT !.ofport = NumField(1)])
                   @@ ("i2" :> DefaultIface("i2"))]

IfaceUUIDs == {"i1", "i2"}
OfportFields == {NoNumField, NumField(1), NumField(2)}
ErrorFields == {NoStrField, StrField("could not open network device")}

(***************************************************************************)
(* State.                                                                  *)
(***************************************************************************)

VARIABLES
    ovsdbCache,    \* the OVSDBMonitor's mirrored tables
    ipCache,       \* monitor.ipCache: port key -> (address -> time)
    now,           \* the clock time.Now() reads
    remote,        \* the AgentInfo stored in the apiserver, or Nil
    hasSynced,     \* agentInformer.HasSynced()
    indexer,       \* the informer's copy of the AgentInfo, or Nil
    indexerFresh,  \* the copy carries the stored object's resourceVersion
    syncQueue,     \* monitor.syncQueue
    stop,          \* stopChan is closed
    runpc,         \* Run: "wait" on stopChan, then "done" (queue shut down)
    lpc,           \* handleOfPortIPAddressUpdate: "run" or "exit"
    tpc,           \* periodicallySyncAgentInfo: "run" or "exit"
    wpc,           \* the worker loop: "get", "busy" or "exit"
    spc,           \* syncAgentInfo: "none", "called", "fetched" or "done"
    inflight,      \* executions of syncAgentInfo entered and not yet returned
    ipCacheLock,   \* holder of monitor.ipCacheLock: "free" or "sync"
    agentInfo,     \* syncAgentInfo's local agentInfo
    origin,        \* syncAgentInfo's originAgentInfo and err of k8sClientGet
    startCache,    \* the ipCache as it was when the attempt took the lock
    req,           \* the write request the attempt issued, and its outcome
    syncErr,       \* the value syncAgentInfo returns: "ok" or the failing step
    creates,       \* successful Create calls of this agent so far
    envLeft        \* events of the environment still allowed

vars == <<ovsdbCache, ipCache, now, remote, hasSynced, indexer, indexerFresh,
          syncQueue, stop, runpc, lpc, tpc, wpc, spc, inflight, ipCacheLock,
          agentInfo, origin, startCache, req, syncErr, creates,
          envLeft>>

envVars == <<ovsdbCache, envLeft>>
storeVars == <<remote, hasSynced, indexer, indexerFresh, creates>>
loopVars == <<stop, runpc, lpc, tpc>>
attemptVars == <<spc, inflight, ipCacheLock, agentInfo, origin, startCache, req, syncErr>>

NoOrigin == [kind |-> "none", obj |-> NoInfo, fresh |-> FALSE]
NoReq == [op |-> "none", obj |-> NoInfo, accepted |-> FALSE]
EmptyCache == <<>>

\* The state NewAgentMonitor leaves, the clock reading t.
InitAt(t) ==
    /\ ovsdbCache = InitOvsdbCache
    /\ ipCache = EmptyCache
    /\ now = t
    /\ remote = Nil
    /\ hasSynced = FALSE
    /\ indexer = Nil
    /\ indexerFresh = TRUE
    /\ syncQueue = NewQueue
    /\ stop = FALSE
    /\ runpc = "wait"
    /\ lpc = "run"
    /\ tpc = "run"
    /\ wpc = "get"
    /\ spc = "none"
    /\ inflight = 0
    /\ ipCacheLock = "free"
    /\ agentInfo = NoInfo
    /\ origin = NoOrigin
    /\ startCache = EmptyCache
    /\ req = NoReq
    /\ syncErr = "ok"
    /\ creates = 0
    /\ envLeft = MaxEnvEvents

Init == InitAt(0)

(***************************************************************************)
(* The apiserver and the informer, as k8sClientGet and syncAgentInfo use   *)
(* them.                                                                   *)
(***************************************************************************)

\* fail: the direct Get is answered with an error.
k8sClientGet(fail) ==
    IF hasSynced
    THEN IF indexer = Nil
         THEN [kind |-> "notfound", obj |-> NoInfo, fresh |-> FALSE]
         ELSE [kind |-> "found", obj |-> indexer, fresh |-> indexerFresh]
    ELSE IF fail
         THEN [kind |-> "error", obj |-> NoInfo, fresh |-> FALSE]
         ELSE IF remote = Nil
              THEN [kind |-> "notfound", obj |-> NoInfo, fresh |-> FALSE]
              ELSE [kind |-> "found", obj |-> remote, fresh |-> TRUE]

\* A direct Get can only fail while the informer has not synced.
GetFaults == IF ~hasSynced /\ envLeft > 0 THEN {FALSE, TRUE} ELSE {FALSE}
WriteFaults == IF envLeft > 0 THEN {FALSE, TRUE} ELSE {FALSE}

\* Create is rejected when the object exists; Update when it does not, or when
\* the resourceVersion sent (that of the fetched object) is not the stored one.
CreateAccepted(fail) == ~fail /\ remote = Nil
UpdateAccepted(fail, fetched) == ~fail /\ remote # Nil /\ fetched.fresh

\* agentInformer.Run: the list-watch brings the indexer up to the stored object.
InformerSync ==
    /\ ~stop
    /\ ~hasSynced \/ ~indexerFresh
    /\ hasSynced' = TRUE
    /\ indexer' = remote
    /\ indexerFresh' = TRUE
    /\ UNCHANGED <<envVars, ipCache, now, remote, creates, syncQueue,
                   loopVars, wpc, attemptVars>>

\* Another writer updates the stored AgentInfo: its metadata alone, or the
\* IPMap of one interface as well.  The resourceVersion changes either way.
OtherWrite ==
    /\ remote # Nil
    /\ envLeft > 0
    /\ \/ remote' = remote
       \/ \E n \in 1..Len(IfacePaths(remote)) :
            LET p == IfacePaths(remote)[n] IN
            /\ Addr9 \notin DOMAIN IfaceAt(remote, p).IPMap
            /\ remote' = SetIPMap(remote, p, MapMerge(IfaceAt(remote, p).IPMap, Addr9 :> now))
    /\ envLeft' = envLeft - 1
    /\ indexerFresh' = FALSE
    /\ origin' = [origin EXCEPT !.fresh = FALSE]
    /\ UNCHANGED <<ovsdbCache, ipCache, now, hasSynced, indexer, creates, syncQueue,
                   loopVars, wpc, spc, inflight, ipCacheLock, agentInfo, startCache,
                   req, syncErr>>

(***************************************************************************)
(* The switch, as the mirror reports it.                                   *)
(***************************************************************************)

SwitchFrame ==
    UNCHANGED <<ipCache, now, storeVars, syncQueue, loopVars, wpc, attemptVars>>

SetOfport ==
    /\ envLeft > 0
    /\ \E u \in DOMAIN ovsdbCache.Interface : \E f \in OfportFields :
        /\ ovsdbCache.Interface[u].ofport # f
        /\ OfportValid(f) => \A v \in DOMAIN ovsdbCache.Interface :
                                ovsdbCache.Interface[v].ofport # f
        /\ ovsdbCache' = [ovsdbCache EXCEPT !.Interface[u].ofport = f]
    /\ envLeft' = envLeft - 1
    /\ SwitchFrame

SetError ==
    /\ envLeft > 0
    /\ \E u \in DOMAIN ovsdbCache.Interface : \E e \in ErrorFields :
        /\ ovsdbCache.Interface[u].error # e
        /\ ovsdbCache' = [ovsdbCache EXCEPT !.Interface[u].error = e]
    /\ envLeft' = envLeft - 1
    /\ SwitchFrame

\* The mirror lags: a row a port or a bridge still references is not (yet, or
\* no longer) in its table.
InterfaceRowMissing ==
    /\ envLeft > 0
    /\ \E u \in DOMAIN ovsdbCache.Interface :
        ovsdbCache' = [ovsdbCache EXCEPT !.Interface =
                          [v \in (DOMAIN ovsdbCache.Interface) \ {u} |-> ovsdbCache.Interface[v]]]
    /\ envLeft' = envLeft - 1
    /\ SwitchFrame

PortRowMissing ==
    /\ envLeft > 0
    /\ "p0" \in DOMAIN ovsdbCache.Port
    /\ ovsdbCache' = [ovsdbCache EXCEPT !.Port = <<>>]
    /\ envLeft' = envLeft - 1
    /\ SwitchFrame

\* The mirror catches up: the missing rows arrive.
MirrorCatchUp ==
    /\ \/ /\ "p0" \notin DOMAIN ovsdbCache.Port
          /\ ovsdbCache' = [ovsdbCache EXCEPT !.Port = ("p0" :> DefaultPort)]
       \/ \E u \in IfaceUUIDs \ DOMAIN ovsdbCache.Interface :
            ovsdbCache' = [ovsdbCache EXCEPT !.Interface = @ @@ (u :> DefaultIface(u))]
    /\ UNCHANGED envLeft
    /\ SwitchFrame

(***************************************************************************)
(* Run and the loops it starts.                                            *)
(***************************************************************************)

\* The shutdown signal: stopChan is closed.
Stop ==
    /\ ~stop
    /\ envLeft > 0
    /\ stop' = TRUE
    /\ envLeft' = envLeft - 1
    /\ UNCHANGED <<ovsdbCache, ipCache, now, storeVars, syncQueue, runpc, lpc, tpc, wpc,
                   attemptVars>>

\* Run returns from <-stopChan and its deferred syncQueue.ShutDown() runs.
RunReturn ==
    /\ stop
    /\ runpc = "wait"
    /\ runpc' = "done"
    /\ syncQueue' = QShutDown(syncQueue)
    /\ UNCHANGED <<envVars, ipCache, now, storeVars, stop, lpc, tpc, wpc,
                   attemptVars>>

\* A learner that applies its batch without taking the lock.
LearnerNoLock == TRUE

\* updateOfPortIPAddress: monitor.ipCacheLock.Lock(), which waits while
\* syncAgentInfo holds the lock.
LearnerLock == ipCacheLock = "free"

\* handleOfPortIPAddressUpdate receives a batch and updateOfPortIPAddress
\* handles it under the ipCache lock.
Learn ==
    /\ lpc = "run"
    /\ LearnerLock
    /\ now < MaxTime
    /\ \E localEndpointInfo \in Batches : \E fail \in GetFaults :
        /\ now' = now + 1
        /\ ipCache' = learnBatch(ipCache, localEndpointInfo, now')
        /\ syncQueue' = IF shouldSyncOnLearnIPLocked(ipCache', k8sClientGet(fail))
                        THEN QAdd(syncQueue) ELSE syncQueue
        /\ envLeft' = IF fail THEN envLeft - 1 ELSE envLeft
    /\ UNCHANGED <<ovsdbCache, storeVars, loopVars, wpc, attemptVars>>

LearnerExit ==
    /\ stop
    /\ lpc = "run"
    /\ lpc' = "exit"
    /\ UNCHANGED <<envVars, ipCache, now, storeVars, syncQueue, stop, runpc, tpc, wpc,
                   attemptVars>>

\* A ticker that asks for a sync only when something was learned.
TickOnlyWhenLearned ==
    /\ tpc = "run"
    /\ syncQueue' = IF ipCache = EmptyCache THEN syncQueue ELSE QAdd(syncQueue)
    /\ UNCHANGED <<envVars, ipCache, now, storeVars, loopVars, wpc, attemptVars>>

\* periodicallySyncAgentInfo: the ticker fires.
Tick ==
    /\ tpc = "run"
    /\ syncQueue' = QAdd(syncQueue)
    /\ UNCHANGED <<envVars, ipCache, now, storeVars, loopVars, wpc, attemptVars>>

TickerExit ==
    /\ stop
    /\ tpc = "run"
    /\ tpc' = "exit"
    /\ UNCHANGED <<envVars, ipCache, now, storeVars, syncQueue, stop, runpc, lpc, wpc,
                   attemptVars>>

\* The delay of an AddAfter elapses and the key is added.
DelayFire ==
    /\ syncQueue.waiting
    /\ syncQueue' = QAdd([syncQueue EXCEPT !.waiting = FALSE])
    /\ UNCHANGED <<envVars, ipCache, now, storeVars, loopVars, wpc, attemptVars>>

(***************************************************************************)
(* The worker: syncAgentInfoWorker and syncAgentInfo.                      *)
(***************************************************************************)

\* A worker that starts syncAgentInfo without waiting for it: it marks the key
\* done and is back at the queue at once.
WorkerDispatchAsync(q) == [wpc |-> "get", q |-> QDone(q)]

\* The worker calls syncAgentInfo and stays in it until it returns; Done is
\* deferred to the worker's own return.
WorkerDispatch(q) == [wpc |-> "busy", q |-> q]

\* A worker that logs the error and leaves the retry to the next trigger.
WorkerOnResultNoRequeue(q, err) == QDone(q)

\* After syncAgentInfo returned err: AddAfter on an error, then the deferred Done.
WorkerOnResult(q, err) ==
    QDone(IF err # "ok" THEN QAddAfter(q) ELSE q)

WorkerGet ==
    /\ wpc = "get"
    /\ syncQueue.queued > 0
    /\ LET d == WorkerDispatch(QGet(syncQueue)) IN
        /\ wpc' = d.wpc
        /\ syncQueue' = d.q
    /\ spc' = "called"
    /\ inflight' = inflight + 1
    /\ UNCHANGED <<envVars, ipCache, now, storeVars, loopVars, ipCacheLock, agentInfo,
                   origin, startCache, req, syncErr>>

\* Get returns shutdown, and wait.Until finds stopChan closed.
WorkerGetShutDown ==
    /\ wpc = "get"
    /\ syncQueue.queued = 0
    /\ syncQueue.shuttingDown
    /\ wpc' = "exit"
    /\ UNCHANGED <<envVars, ipCache, now, storeVars, syncQueue, loopVars, attemptVars>>

\* The orders in which the range over the Bridge table can visit its rows.
BridgeOrders(cache) ==
    {o \in [1..Cardinality(DOMAIN cache.Bridge) -> DOMAIN cache.Bridge] :
        \A a, b \in DOMAIN o : a # b => o[a] # o[b]}

\* syncAgentInfo up to the answer of k8sClientGet: lock, build, fetch.
\* A panic in the build unwinds syncAgentInfo (the deferred Unlock runs) and
\* the worker, and ends the process with all its goroutines.
SyncBuild ==
    /\ spc = "called"
    /\ ipCacheLock = "free"
    /\ startCache' = ipCache
    /\ \E order \in BridgeOrders(ovsdbCache) :
        IF getAgentInfoPanics(ovsdbCache, order)
        THEN /\ spc' = "panic"
             /\ ipCacheLock' = "free"
             /\ runpc' = "crashed" /\ lpc' = "crashed" /\ tpc' = "crashed"
             /\ wpc' = "crashed"
             /\ UNCHANGED <<stop, agentInfo, origin, envLeft, syncErr>>
        ELSE
        \E built \in {getAgentInfo(ovsdbCache, ipCache, order)} :
        /\ ipCacheLock' = "sync"
        /\ UNCHANGED <<loopVars, wpc>>
        /\ IF built.err
           THEN /\ spc' = "done"
                /\ syncErr' = "build"
                /\ UNCHANGED <<agentInfo, origin, envLeft>>
           ELSE \E fail \in GetFaults :
                /\ envLeft' = IF fail THEN envLeft - 1 ELSE envLeft
                /\ spc' = "fetched"
                /\ agentInfo' = built.info
                /\ origin' = k8sClientGet(fail)
                /\ UNCHANGED syncErr
    /\ UNCHANGED <<ovsdbCache, ipCache, now, storeVars, syncQueue, inflight, req>>

\* A request that carries the newest resourceVersion whatever was fetched.
ObjectMetaLatest(originAgentInfo) == [originAgentInfo EXCEPT !.fresh = TRUE]

\* agentInfo.ObjectMeta = originAgentInfo.ObjectMeta: the Update carries the
\* resourceVersion of the object this attempt fetched.
ObjectMeta(originAgentInfo) == originAgentInfo

\* A test that takes every failed lookup for not-found.
IsNotFoundAnyError(fetched) == fetched.kind # "found"

\* errors.IsNotFound(err) on the answer of k8sClientGet.
IsNotFound(fetched) == fetched.kind = "notfound"

\* A reset that does not wait for the answer of the Update.
resetIPCacheAlways(ok, cache) == <<>>

\* The error of Update returns before the reset; only an accepted Update is
\* followed by monitor.ipCache = make(...).
resetIPCache(ok, cache) == IF ok THEN <<>> ELSE cache

\* The rest of syncAgentInfo: Create when the lookup was not-found, the error
\* of any other failed lookup, else merge, Update and, when the Update is
\* accepted, the reset of the ipCache.
SyncWrite ==
    /\ spc = "fetched"
    /\ spc' = "done"
    /\ IF IsNotFound(origin)
       THEN \E fail \in WriteFaults :
            \E ok \in {CreateAccepted(fail)} : \E obj \in {Serialize(agentInfo, ipCache)} :
            /\ envLeft' = IF fail THEN envLeft - 1 ELSE envLeft
            /\ req' = [op |-> "create", obj |-> obj, accepted |-> ok]
            /\ remote' = IF ok THEN obj ELSE remote
            /\ indexerFresh' = IF ok THEN FALSE ELSE indexerFresh
            /\ creates' = IF ok THEN creates + 1 ELSE creates
            /\ syncErr' = IF ok THEN "ok" ELSE "create"
            /\ UNCHANGED <<ipCache, agentInfo>>
       ELSE IF origin.kind = "error"
       THEN /\ syncErr' = "fetch"
            /\ UNCHANGED <<envLeft, req, remote, indexerFresh, creates, ipCache, agentInfo>>
       ELSE \E fail \in WriteFaults :
            \E m \in {mergeAgentInfo(agentInfo, origin.obj, ipCache)} :
            \E ok \in {UpdateAccepted(fail, ObjectMeta(origin))} : \E obj \in {Serialize(m.info, m.cache)} :
            /\ envLeft' = IF fail THEN envLeft - 1 ELSE envLeft
            /\ req' = [op |-> "update", obj |-> obj, accepted |-> ok]
            /\ remote' = IF ok THEN obj ELSE remote
            /\ indexerFresh' = IF ok THEN FALSE ELSE indexerFresh
            /\ agentInfo' = m.info
            /\ syncErr' = IF ok THEN "ok" ELSE "update"
            /\ ipCache' = resetIPCache(ok, m.cache)
            /\ UNCHANGED creates
    /\ UNCHANGED <<ovsdbCache, now, hasSynced, indexer, syncQueue, loopVars, wpc,
                   inflight, ipCacheLock, origin, startCache>>

\* An Unlock that runs only when the attempt returns nil.
ipCacheUnlockOnSuccess(err) == IF err = "ok" THEN "free" ELSE "sync"

\* defer monitor.ipCacheLock.Unlock(): the lock is released on every return of
\* syncAgentInfo, whatever the error.
ipCacheUnlock(err) == "free"

\* syncAgentInfo returns (the deferred Unlock runs) and the worker handles the
\* result; wait.Until then calls the worker again unless stopChan is closed.
SyncReturn ==
    /\ spc = "done"
    /\ spc' = "none"
    /\ inflight' = inflight - 1
    /\ ipCacheLock' = ipCacheUnlock(syncErr)
    /\ syncQueue' = WorkerOnResult(syncQueue, syncErr)
    /\ wpc' = IF stop THEN "exit" ELSE "get"
    /\ agentInfo' = NoInfo
    /\ origin' = NoOrigin
    /\ startCache' = EmptyCache
    /\ req' = NoReq
    /\ syncErr' = "ok"
    /\ UNCHANGED <<envVars, ipCache, now, storeVars, loopVars>>

Next ==
    \/ InformerSync
    \/ OtherWrite
    \/ SetOfport
    \/ SetError
    \/ InterfaceRowMissing
    \/ PortRowMissing
    \/ MirrorCatchUp
    \/ Stop
    \/ RunReturn
    \/ Learn
    \/ LearnerExit
    \/ Tick
    \/ TickerExit
    \/ DelayFire
    \/ WorkerGet
    \/ WorkerGetShutDown
    \/ SyncBuild
    \/ SyncWrite
    \/ SyncReturn

Spec == Init /\ [][Next]_vars

\* ENABLED of the three steps of syncAgentInfo, written out: each step is
\* enabled exactly when the attempt stands at it (and, for the first, the
\* ipCache lock is free), and each changes spc.
SyncBuildEnabled == spc = "called" /\ ipCacheLock = "free"
SyncWriteEnabled == spc = "fetched"
SyncReturnEnabled == spc = "done"

\* The three guards are the steps' ENABLED, state by state.
SyncGuardsExact ==
    /\ SyncBuildEnabled <=> ENABLED <<SyncBuild>>_vars
    /\ SyncWriteEnabled <=> ENABLED <<SyncWrite>>_vars
    /\ SyncReturnEnabled <=> ENABLED <<SyncReturn>>_vars

\* The loops Run starts keep running: the worker goroutine takes its steps, a
\* pending AddAfter fires after its delay, the ticker fires every
\* AgentInfoSyncInterval, the informer and the switch mirror catch up.  The
\* steps of syncAgentInfo are weakly fair too: WF_vars(A) is
\* []<>~ENABLED <<A>>_vars \/ []<><<A>>_vars, and is stated in that form with
\* the guards above.  The clock starts one learning event before its bound.
FairSpec ==
    /\ InitAt(MaxTime - 1)
    /\ [][Next]_vars
    /\ WF_vars(WorkerGet) /\ WF_vars(DelayFire) /\ WF_vars(Tick)
    /\ WF_vars(InformerSync) /\ WF_vars(MirrorCatchUp)
    /\ ([]<>~SyncBuildEnabled \/ []<><<SyncBuild>>_vars)
    /\ ([]<>~SyncWriteEnabled \/ []<><<SyncWrite>>_vars)
    /\ ([]<>~SyncReturnEnabled \/ []<><<SyncReturn>>_vars)

(***************************************************************************)
(* The merge on its own: one Update attempt from every combination of a    *)
(* mirror, an ipCache and a stored AgentInfo drawn from bounded sets.      *)
(***************************************************************************)

RemoteIPMaps == {<<>>, Addr7 :> 0, Addr8 :> 0, (Addr7 :> 0) @@ (Addr8 :> 0)}
RemoteOfports == {0, 1, 2}

RemoteIface(name, ofport, m) == [Name |-> name, Ofport |-> ofport, IPMap |-> m]

\* A bridge of another name, holding an interface with ofport 1.
OtherBridge ==
    [Name |-> "br1",
     Ports |-> <<[Name |-> "p1", Interfaces |-> <<RemoteIface("eth9", 1, Addr8 :> 0)>>]>>]

MergeRemotes ==
    {[Bridges |-> pre \o
        <<[Name |-> "br0",
           Ports |-> <<[Name |-> "p0",
                        Interfaces |-> <<RemoteIface("eth1", o1, m1),
                                         RemoteIface("eth2", o2, m2)>>]>>]>>] :
        pre \in {<<>>, <<OtherBridge>>}, o1 \in RemoteOfports, o2 \in RemoteOfports,
        m1 \in RemoteIPMaps, m2 \in RemoteIPMaps}

MergeMirrors ==
    {[InitOvsdbCache EXCEPT !.Interface["i1"].ofport = f1, !.Interface["i2"].ofport = f2] :
        f1 \in {NoNumField, NumField(0), NumField(1)},
        f2 \in {NoNumField, NumField(1), NumField(2)}}

MergeCaches ==
    UNION {[S -> {Addr7 :> 1, Addr8 :> 1}] : S \in SUBSET {"br0-0", "br0-1"}}

\* The worker is inside syncAgentInfo, which has built its snapshot and fetched
\* the stored object.
InitMerge ==
    /\ ovsdbCache \in MergeMirrors
    /\ ipCache \in MergeCaches
    /\ remote \in MergeRemotes
    /\ now = 1
    /\ hasSynced = FALSE
    /\ indexer = Nil
    /\ indexerFresh = FALSE
    /\ syncQueue = QGet(QAdd(NewQueue))
    /\ stop = FALSE
    /\ runpc = "wait"
    /\ lpc = "run"
    /\ tpc = "run"
    /\ wpc = "busy"
    /\ spc = "fetched"
    /\ inflight = 1
    /\ ipCacheLock = "sync"
    /\ agentInfo = getAgentInfo(ovsdbCache, ipCache, <<"b0">>).info
    /\ origin = [kind |-> "found", obj |-> remote, fresh |-> TRUE]
    /\ startCache = ipCache
    /\ req = NoReq
    /\ syncErr = "ok"
    /\ creates = 1
    /\ envLeft = 0

NextMerge == SyncWrite

SpecMerge == InitMerge /\ [][NextMerge]_vars

(***************************************************************************)
(* Properties.                                                             *)
(***************************************************************************)

\* The map a snapshot interface held before the merge ran: the fresh build
\* leaves it nil or pointing at the ipCache entry of the interface's key.
BuiltIPMap(f) == IF f.IPMap.ref = "cache" THEN startCache[f.IPMap.key] ELSE <<>>

\* The interfaces of the fetched object with the bridge name and Ofport of the
\* snapshot interface at p, in the fetched object's order.
SameIdentity(p) ==
    SelectSeq(IfacePaths(origin.obj), LAMBDA q :
        /\ origin.obj.Bridges[q[1]].Name = agentInfo.Bridges[p[1]].Name
        /\ IfaceAt(origin.obj, q).Ofport = IfaceAt(agentInfo, p).Ofport)

MergedAt(p) ==
    LET l == BuiltIPMap(IfaceAt(agentInfo, p))
        r == IfaceAt(origin.obj, SameIdentity(p)[1]).IPMap
        out == IfaceAt(req.obj, p).IPMap
    IN /\ DOMAIN out = (DOMAIN l) \cup (DOMAIN r)
       /\ \A k \in DOMAIN l : out[k] = l[k]
       /\ \A k \in (DOMAIN r) \ (DOMAIN l) : out[k] = r[k]

\* C1: in the object an Update carries, every interface of the fresh snapshot
\* that has an interface of the same bridge name and Ofport in the fetched
\* object (the first such one, in the fetched object's order) has the union of
\* both key sets; a key the snapshot had keeps the snapshot's timestamp, a key
\* only the fetched interface had carries the fetched timestamp.
C1_MergeKeepsRemoteOnly ==
    (spc = "done" /\ req.op = "update") =>
        \A n \in 1..Len(IfacePaths(agentInfo)) :
            LET p == IfacePaths(agentInfo)[n] IN
            Len(SameIdentity(p)) > 0 => MergedAt(p)

\* An Update whose merge met, on one interface, a key only the fetched object
\* had and a key both had, under different timestamps.
C1_Witness ==
    /\ spc = "done"
    /\ req.op = "update"
    /\ \E n \in 1..Len(IfacePaths(agentInfo)) :
        LET p == IfacePaths(agentInfo)[n] IN
        /\ Len(SameIdentity(p)) > 0
        /\ LET l == BuiltIPMap(IfaceAt(agentInfo, p))
               r == IfaceAt(origin.obj, SameIdentity(p)[1]).IPMap
           IN /\ (DOMAIN r) \ (DOMAIN l) # {}
              /\ \E k \in (DOMAIN l) \cap (DOMAIN r) : l[k] # r[k]

AllAddrs(obj) ==
    UNION {DOMAIN IfaceAt(obj, IfacePaths(obj)[n]).IPMap : n \in 1..Len(IfacePaths(obj))}

NonGlobalAddrs == {Loopback, LinkLocal, Multicast}

\* C2: a loopback, link-local or multicast address is never in the ipCache,
\* nor in an object this agent sends to the apiserver, nor in the stored one.
C2_NonGlobalNeverCached ==
    /\ \A k \in DOMAIN ipCache : (DOMAIN ipCache[k]) \cap NonGlobalAddrs = {}
    /\ AllAddrs(req.obj) \cap NonGlobalAddrs = {}
    /\ remote # Nil => AllAddrs(remote) \cap NonGlobalAddrs = {}

\* A batch was handled and left the ipCache empty: nothing is stored yet, so no
\* Update can have reset the cache, and the batch held non-global addresses only.
C2_Witness == now > 0 /\ ipCache = EmptyCache /\ remote = Nil

\* C3: at most one execution of syncAgentInfo is in progress.
C3_AtMostOneInFlight == inflight <= 1

\* An attempt is between its fetch and its write while a further trigger has
\* arrived for the key.
C3_Witness == inflight = 1 /\ spc = "fetched" /\ syncQueue.dirty

\* C4, as claimed: whenever syncAgentInfo is about to return nil, the ipCache
\* is empty.
C4_CacheEmptyAfterSuccess ==
    (spc = "done" /\ syncErr = "ok") => ipCache = EmptyCache

\* C5, as claimed: when an accepted Update is followed by the reset of the
\* ipCache, every address the cache held is in the IPMap of some interface of
\* the object just stored.
C5_ClearedPairsPersisted ==
    (spc = "done" /\ req.op = "update" /\ req.accepted) =>
        \A k \in DOMAIN startCache : DOMAIN startCache[k] \subseteq AllAddrs(req.obj)

\* C6, as claimed: when syncAgentInfo is about to return an error, the ipCache
\* is what it was when the attempt took the lock.
C6_CacheUntouchedOnError ==
    (spc = "done" /\ syncErr # "ok") => ipCache = startCache

\* A bridge of the mirror references a port that is not in the Port table.
PortMissing(cache) ==
    \E b \in DOMAIN cache.Bridge :
        \E n \in 1..Len(listUUID(cache.Bridge[b].ports)) :
            listUUID(cache.Bridge[b].ports)[n] \notin DOMAIN cache.Port

\* C9: an attempt that builds its snapshot while a bridge references a missing
\* port ends in that step with the build error, has issued no request and
\* leaves the stored object as it is.
C9_NoPartialSnapshot ==
    [][(spc = "called" /\ spc' # "called" /\ PortMissing(ovsdbCache)) =>
            (spc' = "done" /\ syncErr' = "build" /\ req' = NoReq /\ remote' = remote)]_vars

\* An attempt is about to return the build error, the port still missing.
C9_Witness ==
    spc = "done" /\ syncErr = "build" /\ PortMissing(ovsdbCache) /\ remote # Nil

\* C10, as claimed: an attempt whose lookup was not-found creates the fresh
\* snapshot and returns success.
C10_NotFoundReturnsSuccess ==
    (spc = "done" /\ origin.kind = "notfound") => syncErr = "ok"

\* C10, amended: a Create is issued only after a not-found lookup and carries
\* the fresh snapshot, unmerged; the attempt returns success exactly when the
\* Create is accepted; at most one Create of this agent succeeds, every later
\* accepted write is an Update, and the stored object is never deleted.
C10_RecordLifecycle ==
    /\ [](/\ (spc = "done" /\ req.op = "create") =>
                /\ origin.kind = "notfound"
                /\ req.obj = Serialize(agentInfo, startCache)
                /\ ipCache = startCache
                /\ (syncErr = "ok") = req.accepted
          /\ (spc = "done" /\ origin.kind = "notfound") => req.op = "create"
          /\ creates <= 1)
    /\ [][/\ remote # Nil => remote' # Nil
          /\ (creates = 1 /\ req'.accepted /\ req' # req) => req'.op = "update"]_vars

\* A Create was rejected because the object exists: the informer's index had
\* not caught up with the agent's own earlier Create.
C10_Witness ==
    spc = "done" /\ req.op = "create" /\ ~req.accepted /\ creates = 1 /\ envLeft = MaxEnvEvents

\* The mirror holds, under a bridge and a port it can resolve, an error-free
\* interface row whose bridge name and valid ofport give the port key k.
LiveInterface(cache, k) ==
    \E b \in DOMAIN cache.Bridge :
      \E pn \in 1..Len(listUUID(cache.Bridge[b].ports)) :
        LET pu == listUUID(cache.Bridge[b].ports)[pn] IN
        /\ pu \in DOMAIN cache.Port
        /\ \E fn \in 1..Len(listUUID(cache.Port[pu].interfaces)) :
             LET fu == listUUID(cache.Port[pu].interfaces)[fn] IN
             /\ fu \in DOMAIN cache.Interface
             /\ cache.Interface[fu].error.t # "string"
             /\ cache.Interface[fu].ofport.t = "float64"
             /\ cache.Interface[fu].ofport.n >= 0
             /\ PortKey(cache.Bridge[b].name, cache.Interface[fu].ofport.n) = k

\* The stored object has address a in the IPMap of an interface of port key k.
Persisted(k, a) ==
    /\ remote # Nil
    /\ \E n \in 1..Len(IfacePaths(remote)) :
         LET p == IfacePaths(remote)[n] IN
         /\ PortKey(remote.Bridges[p[1]].Name, IfaceAt(remote, p).Ofport) = k
         /\ a \in DOMAIN IfaceAt(remote, p).IPMap

\* The cache holds a under k, the switch has the interface of k, and from here
\* on the switch does not change, the store rejects no request for a fault,
\* no other writer writes and the agent is not shut down.  An attempt already
\* past its build has built its snapshot with the interface of k in it.
LearnedAndSettled(k, a) ==
    /\ k \in DOMAIN ipCache
    /\ a \in DOMAIN ipCache[k]
    /\ LiveInterface(ovsdbCache, k)
    /\ ~PortMissing(ovsdbCache)
    /\ envLeft = 0
    /\ ~stop
    /\ spc \in {"fetched", "done"} =>
          \E n \in 1..Len(IfacePaths(agentInfo)) :
              IfaceAt(agentInfo, IfacePaths(agentInfo)[n]).IPMap = CacheRef(k)

\* A later learning event for k has replaced the addresses of k.
Superseded(k, a) == k \in DOMAIN ipCache /\ a \notin DOMAIN ipCache[k]

\* C7: an address learned for a port key whose interface the switch keeps,
\* error-free, is eventually in that interface's IPMap in the stored object,
\* unless a later learning event for the key replaces it first.
C7_EventuallyPersisted ==
    \A k \in LearnKeys : \A a \in {Addr7, Addr8} :
        LearnedAndSettled(k, a) ~> (Persisted(k, a) \/ Superseded(k, a))

\* The learned address is stored while the cache still holds it: the write
\* that stored it was the Create.
C7_Witness ==
    /\ spc = "none" /\ envLeft = 0 /\ ~stop
    /\ "br0-1" \in DOMAIN ipCache /\ Addr8 \in DOMAIN ipCache["br0-1"]
    /\ Persisted("br0-1", Addr8)

\* C8: when syncAgentInfo returns an error the worker puts the key back with
\* AddAfter and goes on to the next Get; unless the agent is stopped another
\* attempt follows; an attempt whose write the store accepts returns nil.
C8_RetryAfterError ==
    /\ [][(spc = "done" /\ spc' = "none" /\ syncErr # "ok") =>
            /\ syncQueue.shuttingDown \/ syncQueue'.waiting
            /\ stop \/ wpc' = "get"]_vars
    /\ (spc = "done" /\ syncErr # "ok") ~> (spc = "called" \/ stop)
    /\ []((spc = "done" /\ req.accepted) => syncErr = "ok")

\* An Update has just been rejected with a conflict: the object had changed
\* since the attempt read it.
C8_Witness ==
    /\ spc = "done" /\ syncErr = "update" /\ req.op = "update"
    /\ ~origin.fresh /\ envLeft = MaxEnvEvents /\ ~stop

\* C11: an Update whose fetched object is no longer the stored version (the
\* index lagged, or another writer wrote after the fetch) is rejected and
\* leaves the stored object as it is; an accepted Update was merged against
\* exactly the stored object, so nothing in it is overwritten unseen.
C11_UpdateCarriesFetchedVersion ==
    [][(spc = "fetched" /\ spc' = "done" /\ req'.op = "update") =>
          /\ ~origin.fresh => (~req'.accepted /\ remote' = remote /\ syncErr' = "update")
          /\ req'.accepted => origin.obj = remote]_vars

\* An Update was rejected with a conflict: another writer had added an address
\* after the version the agent fetched, and the stored object still holds it.
C11_Witness ==
    /\ spc = "done" /\ req.op = "update" /\ ~req.accepted /\ ~origin.fresh
    /\ envLeft = 0
    /\ Addr9 \in AllAddrs(remote) /\ Addr9 \notin AllAddrs(origin.obj)

(***************************************************************************)
(* One learning batch, on any cache and any stored object.                 *)
(***************************************************************************)

\* The learner is about to receive its last batch: the cache holds what
\* earlier batches left, and the apiserver holds no object or any object of
\* MergeRemotes, which the informer's index may or may not have yet.
InitLearn ==
    /\ ovsdbCache = InitOvsdbCache
    /\ ipCache \in MergeCaches
    /\ now = MaxTime - 1
    /\ remote \in MergeRemotes \cup {Nil}
    /\ hasSynced \in BOOLEAN
    /\ indexer \in {Nil, remote}
    /\ indexerFresh = (indexer = remote)
    /\ syncQueue = NewQueue
    /\ stop = FALSE
    /\ runpc = "wait"
    /\ lpc = "run"
    /\ tpc = "run"
    /\ wpc = "get"
    /\ spc = "none"
    /\ inflight = 0
    /\ ipCacheLock = "free"
    /\ agentInfo = NoInfo
    /\ origin = NoOrigin
    /\ startCache = EmptyCache
    /\ req = NoReq
    /\ syncErr = "ok"
    /\ creates = IF remote = Nil THEN 0 ELSE 1
    /\ envLeft \in 0..MaxEnvEvents

NextLearn == Learn

SpecLearn == InitLearn /\ [][NextLearn]_vars

\* The object k8sClientGet reads: the index once the informer has synced,
\* else the stored object.
Readable == IF hasSynced THEN indexer ELSE remote

\* Some interface of obj with the bridge and ofport of key k holds address a.
Reflected(obj, k, a) ==
    \E n \in 1..Len(IfacePaths(obj)) :
        /\ PortKey(obj.Bridges[IfacePaths(obj)[n][1]].Name,
                   IfaceAt(obj, IfacePaths(obj)[n]).Ofport) = k
        /\ a \in DOMAIN IfaceAt(obj, IfacePaths(obj)[n]).IPMap

\* C12: after a batch is applied the key is added to the queue (pending there
\* unless the queue has been shut down) whenever no object can be read, or
\* the cache holds an address under a key that no interface of the read
\* object with that bridge and ofport holds.
C12_EnqueueOnUnreflected ==
    [][(now' = now + 1 /\
        (Readable = Nil \/
         \E k \in DOMAIN ipCache' : \E a \in DOMAIN ipCache'[k] :
            ~Reflected(Readable, k, a)))
       => (syncQueue'.dirty \/ syncQueue.shuttingDown)]_vars

KeyedAt(obj, k) ==
    \E n \in 1..Len(IfacePaths(obj)) :
        PortKey(obj.Bridges[IfacePaths(obj)[n][1]].Name,
                IfaceAt(obj, IfacePaths(obj)[n]).Ofport) = k

\* A batch has been applied, the key is pending before the first tick, and the
\* cache holds a key that no interface of the readable object has.
C12_Witness ==
    /\ now > 0 /\ syncQueue.dirty /\ ~stop
    /\ Readable # Nil
    /\ \E k \in DOMAIN ipCache : ipCache[k] # <<>> /\ ~KeyedAt(Readable, k)

ResyncMirror ==
    [Bridge |-> ("b0" :> [name |-> "br0", ports |-> UUIDField("p0")])
                @@ ("b1" :> [name |-> "br1", ports |-> UUIDField("p1")]),
     Port |-> ("p0" :> DefaultPort)
              @@ ("p1" :> [name |-> "p1", interfaces |-> UUIDField("i3")]),
     Interface |-> ("i1" :> [DefaultIface("i1") EXCEPT !.ofport = NumField(1)])
                   @@ ("i2" :> DefaultIface("i2"))
                   @@ ("i3" :> [name |-> "eth3", error |-> NoStrField,
                                ofport |-> NumField(1), external_ids |-> MapField])]

\* What was learned before the first attempt.
ResyncCaches ==
    UNION {[S -> {(Addr7 :> 0), (Addr8 :> 0), (Addr7 :> 0) @@ (Addr8 :> 0)}] :
              S \in SUBSET {"br0-1", "br1-1"}}

InitResync ==
    /\ ovsdbCache = ResyncMirror
    /\ ipCache \in ResyncCaches
    /\ now = 0
    /\ remote = Nil
    /\ hasSynced \in BOOLEAN
    /\ indexer = Nil
    /\ indexerFresh = TRUE
    /\ syncQueue = NewQueue
    /\ stop = FALSE
    /\ runpc = "wait"
    /\ lpc = "run"
    /\ tpc = "run"
    /\ wpc = "get"
    /\ spc = "none"
    /\ inflight = 0
    /\ ipCacheLock = "free"
    /\ agentInfo = NoInfo
    /\ origin = NoOrigin
    /\ startCache = EmptyCache
    /\ req = NoReq
    /\ syncErr = "ok"
    /\ creates = 0
    /\ envLeft = 0

NextResync ==
    \/ Tick
    \/ InformerSync
    \/ DelayFire
    \/ WorkerGet
    \/ SyncBuild
    \/ SyncWrite
    \/ SyncReturn

SpecResync == InitResync /\ [][NextResync]_vars

\* C14: once an attempt has succeeded, a further successful attempt with
\* nothing learned, no switch change and no other writer in between leaves
\* the stored object as it was: the same bridges, ports and interfaces in
\* the same order, with the same IPMap keys and timestamps.
C14_ResyncLeavesRemote ==
    [][(remote # Nil /\ spc = "fetched" /\ spc' = "done" /\ req'.accepted)
          => remote' = remote]_vars

\* The stored bridges as a set.
BridgeSet(obj) == {obj.Bridges[i] : i \in 1..Len(obj.Bridges)}

\* Up to the order of the bridges the further attempt does leave the stored
\* object as it was.
ResyncSameBridgeSet ==
    [][(remote # Nil /\ spc = "fetched" /\ spc' = "done" /\ req'.accepted)
          => (BridgeSet(remote') = BridgeSet(remote)
              /\ Len(remote'.Bridges) = Len(remote.Bridges))]_vars

(***************************************************************************)
(* The build alone, over mirrors whose interfaces carry every kind of      *)
(* error column.                                                           *)
(***************************************************************************)

BuildErrorFields == {NoStrField, StrField(""), StrField("could not open network device")}

BuildMirrors ==
    {[InitOvsdbCache EXCEPT !.Interface["i1"].error = e1, !.Interface["i2"].error = e2,
                            !.Interface["i1"].ofport = f1, !.Interface["i2"].ofport = f2] :
        e1 \in BuildErrorFields, e2 \in BuildErrorFields,
        f1 \in {NoNumField, NumField(-1), NumField(0), NumField(1)},
        f2 \in {NoNumField, NumField(2)}}

\* The worker has just called syncAgentInfo.
InitBuild ==
    /\ ovsdbCache \in BuildMirrors
    /\ ipCache \in MergeCaches
    /\ remote = Nil
    /\ now = 1
    /\ hasSynced = FALSE
    /\ indexer = Nil
    /\ indexerFresh = TRUE
    /\ syncQueue = QGet(QAdd(NewQueue))
    /\ stop = FALSE
    /\ runpc = "wait"
    /\ lpc = "run"
    /\ tpc = "run"
    /\ wpc = "busy"
    /\ spc = "called"
    /\ inflight = 1
    /\ ipCacheLock = "free"
    /\ agentInfo = NoInfo
    /\ origin = NoOrigin
    /\ startCache = EmptyCache
    /\ req = NoReq
    /\ syncErr = "ok"
    /\ creates = 0
    /\ envLeft = 0

NextBuild == SyncBuild

SpecBuild == InitBuild /\ [][NextBuild]_vars

\* The error column holds a non-empty string.
ErrorText(f) == f.t = "string" /\ f.s # ""

\* The names of the rows of a port's interfaces whose error column holds no
\* non-empty string, in the port's order.
HealthyNames(cache, uuids) ==
    LET kept == SelectSeq(uuids, LAMBDA u : ~ErrorText(cache.Interface[u].error))
    IN [n \in 1..Len(kept) |-> cache.Interface[kept[n]].name]

\* C15: the built snapshot reports the bridge and the port, and of the port's
\* interfaces exactly those whose error column is not a non-empty string: a
\* row with an error text is left out, a row whose error column is the empty
\* string or an empty set is reported.
C15_ErroredInterfaceDropped ==
    spc = "fetched" =>
        /\ Len(agentInfo.Bridges) = 1
        /\ agentInfo.Bridges[1].Name = "br0"
        /\ Len(agentInfo.Bridges[1].Ports) = 1
        /\ agentInfo.Bridges[1].Ports[1].Name = "p0"
        /\ [n \in 1..Len(agentInfo.Bridges[1].Ports[1].Interfaces) |->
               agentInfo.Bridges[1].Ports[1].Interfaces[n].Name]
             = HealthyNames(ovsdbCache, <<"i1", "i2">>)

\* A snapshot built from a mirror whose first interface has an error text and
\* whose second has the empty string for one: only the second is reported.
C15_Witness ==
    /\ spc = "fetched"
    /\ ErrorText(ovsdbCache.Interface["i1"].error)
    /\ ovsdbCache.Interface["i2"].error = StrField("")
    /\ Len(agentInfo.Bridges[1].Ports[1].Interfaces) = 1
    /\ agentInfo.Bridges[1].Ports[1].Interfaces[1].Name = "eth2"

\* An AgentInfo without its IPMaps: the bridges, ports and interfaces with
\* their names and ofports, in order.
Frame(obj) ==
    [Bridges |-> [i \in 1..Len(obj.Bridges) |->
        [Name |-> obj.Bridges[i].Name,
         Ports |-> [j \in 1..Len(obj.Bridges[i].Ports) |->
            [Name |-> obj.Bridges[i].Ports[j].Name,
             Interfaces |-> [k \in 1..Len(obj.Bridges[i].Ports[j].Interfaces) |->
                [Name |-> obj.Bridges[i].Ports[j].Interfaces[k].Name,
                 Ofport |-> obj.Bridges[i].Ports[j].Interfaces[k].Ofport]]]]]]]

\* Map m holds every entry of map l, with the same value.
Extends(m, l) == \A a \in DOMAIN l : a \in DOMAIN m /\ m[a] = l[a]

\* C16: the object an Update sends has exactly the bridges, ports and
\* interfaces of the fresh build, with the same names and ofports in the same
\* order, and every IPMap of it holds the entries the build gave it; the merge
\* only adds entries to IPMaps.
C16_MergeKeepsBuiltFrame ==
    [][(spc = "fetched" /\ spc' = "done" /\ req'.op = "update") =>
          /\ Frame(req'.obj) = Frame(Serialize(agentInfo, ipCache))
          /\ (\A n \in 1..Len(IfacePaths(agentInfo)) :
                Extends(IfaceAt(req'.obj, IfacePaths(agentInfo)[n]).IPMap,
                        IfaceAt(Serialize(agentInfo, ipCache), IfacePaths(agentInfo)[n]).IPMap))]_vars

\* An Update was sent against a stored object that holds a bridge the build
\* does not, and interfaces named otherwise than the build's interfaces of
\* the same ofport; the object sent has the build's bridge alone and carries
\* an address taken from the stored object.
C16_Witness ==
    /\ spc = "done" /\ req.op = "update"
    /\ Len(origin.obj.Bridges) = 2
    /\ Len(req.obj.Bridges) = 1
    /\ Frame(req.obj) # Frame([Bridges |-> Tail(origin.obj.Bridges)])
    /\ \E a \in AllAddrs(req.obj) : \A k \in DOMAIN startCache : a \notin DOMAIN startCache[k]

\* Cache after is cache before with, for every pair of batch b whose address
\* is global unicast, the entry of the pair's key replaced by the single
\* entry {address: t}, and nothing else changed.
ReplacedBy(before, after, b, t) ==
    \A k \in (DOMAIN before) \cup (DOMAIN after) \cup (DOMAIN b) :
        IF k \in DOMAIN b /\ IsGlobalUnicast(b[k])
        THEN k \in DOMAIN after /\ after[k] = (b[k] :> t)
        ELSE /\ k \in DOMAIN after <=> k \in DOMAIN before
             /\ k \in DOMAIN before => after[k] = before[k]

\* C17: a learning step leaves the cache that updateOfPortIPAddress computes
\* for its batch, and that cache holds exactly {address: now} under the key of
\* every global-unicast pair of the batch, whatever the key held before; the
\* pairs with another address change nothing and the other keys keep their
\* entries.
C17_LearningReplaces ==
    [][now' = now + 1 =>
          \E b \in Batches :
              /\ ipCache' = learnBatch(ipCache, b, now')
              /\ ReplacedBy(ipCache, ipCache', b, now')]_vars

\* A batch has replaced the entry of br0-1, another key has kept the entry it
\* had, and a key the batch could only name with a skipped address is absent.
C17_Witness ==
    /\ now = MaxTime
    /\ "br0-1" \in DOMAIN ipCache /\ ipCache["br0-1"] = (Addr8 :> MaxTime)
    /\ "br0-0" \in DOMAIN ipCache /\ ipCache["br0-0"] = (Addr7 :> 1)
    /\ "br0-2" \notin DOMAIN ipCache

\* C18: the key is pending at most once however many triggers arrive; a
\* retry that falls due, or a learning batch that finds nothing to read, while
\* an attempt is in flight marks the key without queueing it a second time;
\* when the attempt returns with the key marked, the key is pending once, the
\* next attempt takes it and leaves none pending; and unless the agent is
\* stopped that attempt does start.
C18_TriggersCollapseNoneLost ==
    /\ [](syncQueue.queued <= 1)
    /\ [][(~syncQueue.shuttingDown /\
           ((syncQueue.waiting /\ ~syncQueue'.waiting /\ spc' = spc)
              \/ (now' = now + 1 /\ Readable = Nil))) =>
             /\ syncQueue'.dirty
             /\ syncQueue'.queued = (IF syncQueue.processing THEN 0 ELSE 1)]_vars
    /\ [][(spc = "done" /\ spc' = "none" /\ syncQueue.dirty) =>
             (syncQueue'.queued = 1 /\ syncQueue'.dirty)]_vars
    /\ [][(spc = "none" /\ spc' = "called") =>
             (syncQueue.queued = 1 /\ syncQueue'.queued = 0 /\ ~syncQueue'.dirty)]_vars
    /\ (spc = "done" /\ syncQueue.dirty) ~> (spc = "called" \/ stop)

\* An attempt is about to return with success while the key was marked by a
\* trigger that arrived during the attempt.
C18_Witness ==
    /\ spc = "done" /\ syncErr = "ok"
    /\ syncQueue.processing /\ syncQueue.dirty /\ syncQueue.queued = 0
    /\ ~stop /\ ~syncQueue.shuttingDown

\* The run to its end: besides the worker's steps, each loop's select takes
\* its stopChan case once stopChan is closed, Run returns from <-stopChan, and
\* a Get on the shut-down, empty queue returns.
FairStopSpec ==
    /\ InitAt(MaxTime - 1)
    /\ [][Next]_vars
    /\ WF_vars(WorkerGet) /\ WF_vars(WorkerGetShutDown)
    /\ WF_vars(LearnerExit) /\ WF_vars(TickerExit) /\ WF_vars(RunReturn)
    /\ ([]<>~SyncBuildEnabled \/ []<><<SyncBuild>>_vars)
    /\ ([]<>~SyncWriteEnabled \/ []<><<SyncWrite>>_vars)
    /\ ([]<>~SyncReturnEnabled \/ []<><<SyncReturn>>_vars)

\* Run, the learner, the ticker and the worker have returned, no attempt is in
\* flight and the queue is shut down.
AllReturned ==
    /\ runpc = "done" /\ lpc = "exit" /\ tpc = "exit" /\ wpc = "exit"
    /\ spc = "none" /\ syncQueue.shuttingDown

\* C19: once stopChan is closed the learner, the ticker and Run return and
\* the queue is shut down; the worker returns, from its Get or after the
\* attempt it is in, which is never cut short; and with the queue shut down
\* and empty and no attempt in flight no attempt starts.
C19_CooperativeShutdown ==
    /\ stop ~> AllReturned
    /\ [][(spc # "none" /\ spc' = "none") => spc = "done"]_vars
    /\ [][(syncQueue.shuttingDown /\ syncQueue.queued = 0 /\ spc = "none")
             => spc' = "none"]_vars

\* Everything has returned after a shutdown, with addresses still in the cache.
C19_Witness ==
    /\ stop /\ AllReturned
    /\ syncQueue.queued = 0
    /\ ipCache # EmptyCache

\* C20: a pair (port key, address) of the ipCache is still in it after any
\* step, except the write step of an attempt whose Update was accepted, and a
\* learning step that puts a new single entry under the pair's key; an
\* attempt that ends in an error leaves every pair in place.
C20_PairsSurviveFailedSyncs ==
    [][\A k \in DOMAIN ipCache : \A a \in DOMAIN ipCache[k] :
          \/ k \in DOMAIN ipCache' /\ a \in DOMAIN ipCache'[k]
          \/ spc = "fetched" /\ spc' = "done" /\ syncErr' = "ok"
                /\ req'.op = "update" /\ req'.accepted /\ ipCache' = EmptyCache
          \/ now' = now + 1 /\ k \in DOMAIN ipCache'
                /\ \E b \in ObservedAddrs :
                      IsGlobalUnicast(b) /\ ipCache'[k] = (b :> now')]_vars

\* A second attempt in a row has ended in an error: the key is back in the
\* queue's delay while the Update of the attempt in flight was rejected, and
\* the learned address is still in the cache.
C20_Witness ==
    /\ spc = "done" /\ syncErr = "update" /\ ~req.accepted
    /\ syncQueue.waiting
    /\ "br0-1" \in DOMAIN ipCache /\ Addr7 \in DOMAIN ipCache["br0-1"]

\* The stored object has the bridges, ports and interfaces, with their names
\* and ofports, that a build from the mirror as it stands reports.
TopologyStored ==
    /\ remote # Nil
    /\ ~getAgentInfo(ovsdbCache, EmptyCache, <<"b0">>).err
    /\ Frame(remote) = Frame(Serialize(getAgentInfo(ovsdbCache, EmptyCache, <<"b0">>).info,
                                       EmptyCache))

\* C21: while the ticker runs and the queue is open a tick leaves the key
\* marked whatever the ipCache and the stored object hold; and once the
\* switch, the store and the other writers have settled and the agent is not
\* stopped, the stored object comes to report the topology of the mirror,
\* learning event or not.
C21_PeriodicReconciliation ==
    /\ []((tpc = "run" /\ ~syncQueue.shuttingDown) => QAdd(syncQueue).dirty)
    /\ (envLeft = 0 /\ ~stop) ~> TopologyStored

\* Nothing was ever learned, the second interface got its ofport from the
\* switch, and the stored object reports it.
C21_Witness ==
    /\ now = MaxTime - 1 /\ ipCache = EmptyCache /\ ~stop /\ envLeft = 0
    /\ TopologyStored
    /\ \E n \in 1..Len(IfacePaths(remote)) :
          /\ IfaceAt(remote, IfacePaths(remote)[n]).Name = "eth2"
          /\ IfaceAt(remote, IfacePaths(remote)[n]).Ofport = 2

\* The interfaces of the built port that carry the name of mirror row u.
BuiltFrom(u) ==
    {agentInfo.Bridges[1].Ports[1].Interfaces[n] :
        n \in {m \in 1..Len(agentInfo.Bridges[1].Ports[1].Interfaces) :
                 agentInfo.Bridges[1].Ports[1].Interfaces[m].Name
                    = ovsdbCache.Interface[u].name}}

\* C22: in the built snapshot an interface whose ofport column is a number
\* not below zero has that number as Ofport and, as IPMap, the ipCache entry
\* of "<bridge>-<ofport>" (nil when the cache has none); an interface whose
\* ofport column is an empty set or a negative number has Ofport 0 and a nil
\* IPMap, whatever the cache holds under "<bridge>-0".
C22_CacheAttachedIffOfportValid ==
    spc = "fetched" =>
        \A u \in DOMAIN ovsdbCache.Interface : \A f \in BuiltFrom(u) :
            IF ovsdbCache.Interface[u].ofport.t = "float64"
                  /\ ovsdbCache.Interface[u].ofport.n >= 0
            THEN /\ f.Ofport = ovsdbCache.Interface[u].ofport.n
                 /\ f.IPMap = IF PortKey("br0", f.Ofport) \in DOMAIN startCache
                              THEN CacheRef(PortKey("br0", f.Ofport)) ELSE NilMap
            ELSE f.Ofport = 0 /\ f.IPMap = NilMap

\* The first interface has a negative ofport and the second none, the cache
\* holds an entry for br0-0, and both are reported with Ofport 0 and no IPMap.
C22_Witness ==
    /\ spc = "fetched"
    /\ ovsdbCache.Interface["i1"].ofport = NumField(-1)
    /\ ovsdbCache.Interface["i2"].ofport = NoNumField
    /\ "br0-0" \in DOMAIN startCache
    /\ Len(agentInfo.Bridges[1].Ports[1].Interfaces) = 2
    /\ \A u \in {"i1", "i2"} : \A f \in BuiltFrom(u) : f.Ofport = 0 /\ f.IPMap = NilMap

\* The names of the rows among uuids that are in the Interface table and
\* carry no error text, in order.
PresentNames(cache, uuids) ==
    LET kept == SelectSeq(uuids, LAMBDA u :
                    u \in DOMAIN cache.Interface /\ ~ErrorText(cache.Interface[u].error))
    IN [n \in 1..Len(kept) |-> cache.Interface[kept[n]].name]

\* C23: a build that finds the port in the Port table succeeds and reports
\* the bridge and the port with the interfaces whose rows are in the
\* Interface table, a missing row being passed over; a build that does not
\* find the port fails as a whole.
C23_MissingInterfaceSoftSkip ==
    [][(spc = "called" /\ spc' # "called") =>
          IF "p0" \in DOMAIN ovsdbCache.Port
          THEN /\ spc' = "fetched"
               /\ Len(agentInfo'.Bridges) = 1
               /\ Len(agentInfo'.Bridges[1].Ports) = 1
               /\ agentInfo'.Bridges[1].Ports[1].Name = "p0"
               /\ [n \in 1..Len(agentInfo'.Bridges[1].Ports[1].Interfaces) |->
                      agentInfo'.Bridges[1].Ports[1].Interfaces[n].Name]
                    = PresentNames(ovsdbCache, <<"i1", "i2">>)
          ELSE spc' = "done" /\ syncErr' = "build" /\ agentInfo' = NoInfo]_vars

\* The row of the first interface is missing from the mirror and the snapshot
\* in hand reports the port with the second interface alone.
C23_Witness ==
    /\ spc = "fetched"
    /\ "i1" \notin DOMAIN ovsdbCache.Interface
    /\ Len(agentInfo.Bridges[1].Ports) = 1
    /\ Len(agentInfo.Bridges[1].Ports[1].Interfaces) = 1
    /\ agentInfo.Bridges[1].Ports[1].Interfaces[1].Name = "eth2"

(***************************************************************************)
(* The build over mirrors whose Interface rows may lack a parsable         *)
(* external_ids column.                                                    *)
(***************************************************************************)

ExternalIDsFields == {MapField, NoField, SetField(<<>>)}

UnparsableMirrors ==
    {[InitOvsdbCache EXCEPT !.Interface["i1"].external_ids = x1,
                            !.Interface["i2"].external_ids = x2,
                            !.Interface["i1"].error = e1] :
        x1 \in ExternalIDsFields, x2 \in ExternalIDsFields, e1 \in BuildErrorFields}

\* The worker has just called syncAgentInfo.
InitUnparsable ==
    /\ ovsdbCache \in UnparsableMirrors
    /\ ipCache \in MergeCaches
    /\ remote = Nil
    /\ now = 1
    /\ hasSynced = FALSE
    /\ indexer = Nil
    /\ indexerFresh = TRUE
    /\ syncQueue = QGet(QAdd(NewQueue))
    /\ stop = FALSE
    /\ runpc = "wait"
    /\ lpc = "run"
    /\ tpc = "run"
    /\ wpc = "busy"
    /\ spc = "called"
    /\ inflight = 1
    /\ ipCacheLock = "free"
    /\ agentInfo = NoInfo
    /\ origin = NoOrigin
    /\ startCache = EmptyCache
    /\ req = NoReq
    /\ syncErr = "ok"
    /\ creates = 0
    /\ envLeft = 0

NextUnparsable == SyncBuild

SpecUnparsable == InitUnparsable /\ [][NextUnparsable]_vars

\* The names of the rows among uuids that are in the Interface table, carry
\* no error text and have an external_ids map, in order.
ParsableNames(cache, uuids) ==
    LET kept == SelectSeq(uuids, LAMBDA u :
                    /\ u \in DOMAIN cache.Interface
                    /\ ~ErrorText(cache.Interface[u].error)
                    /\ cache.Interface[u].external_ids.t = "OvsMap")
    IN [n \in 1..Len(kept) |-> cache.Interface[kept[n]].name]

\* C24, as claimed: the build never ends in a panic; with every table row in
\* place it succeeds, and the port reports the interfaces whose rows can be
\* parsed, an unparsable row being passed over like a missing one.
C24_UnparsableRowSkipped ==
    [][(spc = "called" /\ spc' # "called") =>
          /\ spc' = "fetched"
          /\ wpc' = "busy"
          /\ [n \in 1..Len(agentInfo'.Bridges[1].Ports[1].Interfaces) |->
                 agentInfo'.Bridges[1].Ports[1].Interfaces[n].Name]
               = ParsableNames(ovsdbCache, <<"i1", "i2">>)]_vars

\* C25: a learning step whose lookup of the stored object succeeds, and after
\* which every key of the ipCache has an interface of that object, of the
\* key's bridge and ofport, holding every address cached under the key,
\* leaves the queue as it was.
C25_NoEnqueueWhenReflected ==
    [][(/\ now' = now + 1
        /\ envLeft' = envLeft
        /\ Readable # Nil
        /\ \A k \in DOMAIN ipCache' : \A a \in DOMAIN ipCache'[k] : Reflected(Readable, k, a))
          => syncQueue' = syncQueue]_vars

\* The address was learned again at the last clock value, the stored object
\* already holds it for the port, and the queue is idle.
C25_Witness ==
    /\ now = MaxTime
    /\ DOMAIN ipCache = {"br0-1"} /\ ipCache["br0-1"] = (Addr7 :> MaxTime)
    /\ Readable # Nil /\ Reflected(Readable, "br0-1", Addr7)
    /\ syncQueue = NewQueue
    /\ spc = "none" /\ ~stop

\* C26, as claimed: every entry of the ipCache holds exactly one address.
C26_SingleAddressPerKey ==
    \A k \in DOMAIN ipCache : Cardinality(DOMAIN ipCache[k]) = 1

\* The interfaces of obj in a bridge of that name and with that ofport.
IfacesKeyed(obj, bridgeName, ofport) ==
    {IfaceAt(obj, IfacePaths(obj)[n]) : n \in
        {m \in 1..Len(IfacePaths(obj)) :
            /\ obj.Bridges[IfacePaths(obj)[m][1]].Name = bridgeName
            /\ IfaceAt(obj, IfacePaths(obj)[m]).Ofport = ofport}}

\* The bridge names of obj.
BridgeNames(obj) == {obj.Bridges[i].Name : i \in 1..Len(obj.Bridges)}

\* The ofports the switch assigns to the interfaces of the mirror.
AssignedOfports == {f.n : f \in {g \in OfportFields : OfportValid(g)}}

\* C27: persisted addresses never expire.  When an Update is accepted, every
\* interface of the new record that has an ofport holds every address the
\* stored record held for the interface of the same bridge and ofport, and
\* with the stored timestamp unless the ipCache holds that address under the
\* interface's key (it was learned again).
C27_PersistedAddressesStay ==
    [][(spc = "fetched" /\ spc' = "done" /\ req'.op = "update" /\ req'.accepted) =>
          (\A b \in BridgeNames(remote') : \A o \in AssignedOfports :
           \A new \in IfacesKeyed(remote', b, o) : \A old \in IfacesKeyed(remote, b, o) :
           \A a \in DOMAIN old.IPMap :
              /\ a \in DOMAIN new.IPMap
              /\ \/ new.IPMap[a] = old.IPMap[a]
                 \/ /\ PortKey(b, o) \in DOMAIN ipCache
                    /\ a \in DOMAIN ipCache[PortKey(b, o)])]_vars

\* An accepted Update has stored an interface with a learned address of the
\* previous record that the ipCache no longer held when the snapshot was built,
\* next to a different address the ipCache did hold for it.
C27_Witness ==
    /\ spc = "done" /\ req.op = "update" /\ req.accepted
    /\ \E b \in BridgeNames(remote) : \E o \in AssignedOfports :
       \E i \in IfacesKeyed(remote, b, o) : \E i0 \in IfacesKeyed(origin.obj, b, o) :
       \E a1 \in DOMAIN i.IPMap : \E a2 \in DOMAIN i.IPMap :
          /\ a1 \in DOMAIN i0.IPMap
          /\ a1 \in ObservedAddrs
          /\ \A k \in DOMAIN startCache : a1 \notin DOMAIN startCache[k]
          /\ PortKey(b, o) \in DOMAIN startCache
          /\ a2 \in DOMAIN startCache[PortKey(b, o)]
          /\ a2 \notin DOMAIN i0.IPMap

\* C28: an interface whose ofport is absent or negative never has addresses
\* in the record this agent persists: in every object of an accepted Create or
\* Update, an interface without an assigned ofport has an empty IPMap.
C28_NoOfportNoAddresses ==
    (req.op # "none" /\ req.accepted) =>
        \A n \in 1..Len(IfacePaths(req.obj)) :
            IfaceAt(req.obj, IfacePaths(req.obj)[n]).Ofport \notin AssignedOfports
                => DOMAIN IfaceAt(req.obj, IfacePaths(req.obj)[n]).IPMap = {}

\* The learner has the lock to take and a batch to apply.
LearnEnabled == lpc = "run" /\ LearnerLock /\ now < MaxTime

\* The guard is the step's ENABLED, state by state.
LearnGuardExact == LearnEnabled <=> ENABLED <<Learn>>_vars

\* FairSpec, and a learner that is not starved of the ipCache lock: a
\* sync.Mutex hands the lock to a goroutine that has waited for it, so a batch
\* whose Lock() finds the lock free again and again is applied.  This is the
\* strong fairness of Learn, SF_vars(Learn), stated as
\* <>[]~ENABLED <<Learn>>_vars \/ []<><<Learn>>_vars with the guard above.
FairLockSpec ==
    /\ InitAt(MaxTime - 1)
    /\ [][Next]_vars
    /\ WF_vars(WorkerGet) /\ WF_vars(DelayFire) /\ WF_vars(Tick)
    /\ WF_vars(InformerSync) /\ WF_vars(MirrorCatchUp)
    /\ ([]<>~SyncBuildEnabled \/ []<><<SyncBuild>>_vars)
    /\ ([]<>~SyncWriteEnabled \/ []<><<SyncWrite>>_vars)
    /\ ([]<>~SyncReturnEnabled \/ []<><<SyncReturn>>_vars)
    /\ (<>[]~LearnEnabled \/ []<><<Learn>>_vars)

\* C29: the locking never deadlocks.  The ipCache lock is held only inside a
\* sync attempt that has built its snapshot and not yet returned, and every
\* attempt that holds it releases it, whatever its outcome; so a sync attempt
\* that was called gets past Lock(), and a learner with a batch to apply
\* applies it unless it leaves its loop.
C29_LockingNeverDeadlocks ==
    /\ [](ipCacheLock = "sync" => spc \in {"fetched", "done"})
    /\ [](ipCacheLock \in {"free", "sync"})
    /\ (ipCacheLock = "sync") ~> (ipCacheLock = "free")
    /\ (spc = "called") ~> (spc # "called")
    /\ (lpc = "run" /\ now < MaxTime) ~> (now = MaxTime \/ lpc # "run")

\* A sync attempt whose Update was rejected still holds the lock while the
\* learner has a batch to apply.
C29_Witness ==
    /\ ipCacheLock = "sync" /\ spc = "done" /\ syncErr = "update"
    /\ lpc = "run" /\ now < MaxTime

====
